---- MODULE Spec2Model ----
(***************************************************************************)
(* Model of project_update.py: the MSVC project / filter file synchronizer.*)
(*                                                                         *)
(* File contents are sequences of lexemes.  One lexeme stands for one      *)
(* piece of text that the script's regular expressions treat as a unit:    *)
(*   NL   a line break "\r\n"                                              *)
(*   SP   one unit of indentation (blanks, no line break)                  *)
(*   IG   "<ItemGroup>"          EG   "</ItemGroup>"                       *)
(*   X    any other text without blanks (another tag, "<ItemGroup Label="  *)
(*        ..>", "<Import/>", "</Project>", ...)                            *)
(*   ClInclude / ClCompile / ResourceCompile                               *)
(*        a self-closing entry  <Kind Include="p" />                       *)
(*   ClIncludeMl / ClCompileMl / ResourceCompileMl                         *)
(*        a multi-line entry  <Kind Include="p"> ... </Kind>               *)
(*   Filter   a filter declaration  <Filter Include="f">                   *)
(* A path is a record of its directory segments, base name and extension.  *)
(* The segments of a path or of a filter are joined by "\", the os.path.sep*)
(* of the hosts of MSVC and the separator write_filter puts after the name *)
(* of a standard filter.                                                   *)
(***************************************************************************)
EXTENDS Integers, Sequences, FiniteSets, TLC

(***************************************************************************)
(* Bounds                                                                  *)
(***************************************************************************)
MaxRuns == 2

(***************************************************************************)
(* Paths and lexemes                                                       *)
(***************************************************************************)
MkPath(d, b, e) == [dir |-> d, base |-> b, ext |-> e]

NoPath == MkPath(<<>>, "", "")

Tok(kind) == [t |-> kind, p |-> NoPath, f |-> <<>>]

Entry(kind, path) == [t |-> kind, p |-> path, f |-> <<>>]

EntryMl(kind, path, filter) == [t |-> kind, p |-> path, f |-> filter]

FilterDecl(filter) == [t |-> "Filter", p |-> NoPath, f |-> filter]

NL == Tok("NL")

SP == Tok("SP")

IG == Tok("IG")

EG == Tok("EG")

X == Tok("X")

RECURSIVE Spaces(_)
Spaces(n) == IF n <= 0 THEN <<>> ELSE <<SP>> \o Spaces(n - 1)

\* \s of the regular expressions: blanks and line breaks
IsSpace(tok) == tok.t \in {"NL", "SP"}

Slice(s, a, b) == IF a > b THEN <<>> ELSE SubSeq(s, a, b)

RECURSIVE Join(_, _)
Join(sep, parts) ==
    IF Len(parts) = 0 THEN <<>>
    ELSE IF Len(parts) = 1 THEN parts[1]
    ELSE parts[1] \o sep \o Join(sep, Tail(parts))

\* str.strip('\r\n')
RECURSIVE LStripNL(_)
LStripNL(s) == IF Len(s) > 0 /\ s[1].t = "NL" THEN LStripNL(Tail(s)) ELSE s

RECURSIVE RStripNL(_)
RStripNL(s) ==
    IF Len(s) > 0 /\ s[Len(s)].t = "NL" THEN RStripNL(Slice(s, 1, Len(s) - 1)) ELSE s

StripNL(s) == RStripNL(LStripNL(s))

\* str.strip(): all white space
RECURSIVE LStripWs(_)
LStripWs(s) == IF Len(s) > 0 /\ IsSpace(s[1]) THEN LStripWs(Tail(s)) ELSE s

IsBlank(s) == LStripWs(s) = <<>>

(***************************************************************************)
(* Regular expressions                                                     *)
(***************************************************************************)
\* index of the first lexeme of the kind at or after i, 0 for none
RECURSIVE FirstOf(_, _, _)
FirstOf(s, kind, i) ==
    IF i > Len(s) THEN 0
    ELSE IF s[i].t = kind THEN i
    ELSE FirstOf(s, kind, i + 1)

\* reItemGroupBegin.split(data)
RECURSIVE reItemGroupBegin_split(_)
reItemGroupBegin_split(data) ==
    LET i == FirstOf(data, "IG", 1)
    IN  IF i = 0 THEN <<data>>
        ELSE <<Slice(data, 1, i - 1)>>
                 \o reItemGroupBegin_split(Slice(data, i + 1, Len(data)))

\* '^' under re.M: the start of the string or the position after a line break
AtLineStart(s, i) == i = 1 \/ s[i - 1].t = "NL"

\* index of the first lexeme at or after i that is not white space
RECURSIVE SkipSpace(_, _)
SkipSpace(s, i) ==
    IF i <= Len(s) /\ IsSpace(s[i]) THEN SkipSpace(s, i + 1) ELSE i

\* reItemGroupEnd = ^(\s*</ItemGroup>) matched at position i: the index of the
\* closing tag, or 0 when there is no match at i
EndAt(s, i) ==
    IF AtLineStart(s, i)
    THEN LET j == SkipSpace(s, i)
         IN  IF j <= Len(s) /\ s[j].t = "EG" THEN j ELSE 0
    ELSE 0

\* reItemGroupEnd.search(s) from position from: <<first, last>> of the leftmost
\* match, <<0, 0>> when there is none
RECURSIVE EndFrom(_, _)
EndFrom(s, from) ==
    IF from > Len(s) THEN <<0, 0>>
    ELSE LET j == EndAt(s, from)
         IN  IF j # 0 THEN <<from, j>> ELSE EndFrom(s, from + 1)

\* reItemGroupEnd.search(s): the matched text, <<>> for no match (a match is
\* never empty)
reItemGroupEnd_search(s) ==
    LET m == EndFrom(s, 1) IN IF m[1] = 0 THEN <<>> ELSE Slice(s, m[1], m[2])

\* reItemGroupEnd.split(s): the pattern has one capturing group, so the
\* result alternates text and matched closing tags
RECURSIVE EndSplitFrom(_, _)
EndSplitFrom(s, from) ==
    LET m == EndFrom(s, from)
    IN  IF m[1] = 0 THEN <<Slice(s, from, Len(s))>>
        ELSE <<Slice(s, from, m[1] - 1), Slice(s, m[1], m[2])>>
                 \o EndSplitFrom(s, m[2] + 1)

reItemGroupEnd_split(s) == EndSplitFrom(s, 1)

\* reIndent = ^(\s*) searched in s: the leading white space
RECURSIVE reIndent(_)
reIndent(s) ==
    IF Len(s) > 0 /\ IsSpace(s[1]) THEN <<s[1]>> \o reIndent(Tail(s)) ELSE <<>>

\* the multi-line patterns start with ^\s*: the entry must be preceded by
\* white space only, back to a line start
RECURSIVE MlAt(_, _)
MlAt(s, i) ==
    IF AtLineStart(s, i) THEN TRUE
    ELSE IF IsSpace(s[i - 1]) THEN MlAt(s, i - 1)
    ELSE FALSE

MlKind(kind) ==
    CASE kind = "ClInclude" -> "ClIncludeMl"
      [] kind = "ClCompile" -> "ClCompileMl"
      [] kind = "ResourceCompile" -> "ResourceCompileMl"

\* reClInclude / reClCompile / reRcCompile .search
reSingle_search(kind, s) == \E i \in 1..Len(s) : s[i].t = kind

\* reClIncludeMl / reClCompileMl / reRcCompileMl .search
reMl_search(kind, s) == \E i \in 1..Len(s) : s[i].t = MlKind(kind) /\ MlAt(s, i)

\* .findall of the single-line pattern: the paths, in order
RECURSIVE reSingle_findall(_, _)
reSingle_findall(kind, s) ==
    IF Len(s) = 0 THEN <<>>
    ELSE (IF s[1].t = kind THEN <<s[1].p>> ELSE <<>>)
             \o reSingle_findall(kind, Tail(s))

\* .findall of the multi-line pattern: the paths (x[0] of each match), in order
RECURSIVE MlFindFrom(_, _, _)
MlFindFrom(kind, s, i) ==
    IF i > Len(s) THEN <<>>
    ELSE (IF s[i].t = MlKind(kind) /\ MlAt(s, i) THEN <<s[i].p>> ELSE <<>>)
             \o MlFindFrom(kind, s, i + 1)

reMl_findall(kind, s) == MlFindFrom(kind, s, 1)

(***************************************************************************)
(* String order and case folding.  Strings are atomic, so the order of     *)
(* the strings that occur in the model is given by their position in the   *)
(* ASCII-sorted list below, and a path compares segment by segment (no     *)
(* segment of the model is a proper prefix of another).                    *)
(***************************************************************************)
SortedStrings ==
    <<"", ".CPP", ".H", ".HPP", ".c", ".cpp", ".h", ".hpp", ".rc", ".txt",
      "A", "DEBUG", "Debug", "Header Files", "Resource Files", "Source Files",
      "Src", "a", "b", "c", "debug", "deep", "docs", "gen", "inc", "old",
      "readme", "release", "res", "src", "sub", "x">>

StrRank(s) == CHOOSE i \in 1..Len(SortedStrings) : SortedStrings[i] = s

\* lexicographic order of two sequences of strings
RECURSIVE SeqLess(_, _)
SeqLess(a, b) ==
    IF Len(b) = 0 THEN FALSE
    ELSE IF Len(a) = 0 THEN TRUE
    ELSE IF a[1] = b[1] THEN SeqLess(Tail(a), Tail(b))
    ELSE StrRank(a[1]) < StrRank(b[1])

\* the path as text: directory segments, then the file name
PathStr(p) == p.dir \o <<p.base, p.ext>>

PathLess(p, q) == SeqLess(PathStr(p), PathStr(q))

\* sorted(S) for a set of paths
RECURSIVE sorted(_)
sorted(S) ==
    IF S = {} THEN <<>>
    ELSE LET m == CHOOSE x \in S : \A y \in S \ {x} : PathLess(x, y)
         IN  <<m>> \o sorted(S \ {m})

\* sorted(S) for a set of directory names
RECURSIVE sortedDirs(_)
sortedDirs(S) ==
    IF S = {} THEN <<>>
    ELSE LET m == CHOOSE x \in S : \A y \in S \ {x} : SeqLess(x, y)
         IN  <<m>> \o sortedDirs(S \ {m})

\* str.lower()
Lower(s) ==
    CASE s = "Debug" -> "debug"
      [] s = "DEBUG" -> "debug"
      [] s = "Src" -> "src"
      [] s = "A" -> "a"
      [] s = ".CPP" -> ".cpp"
      [] s = ".HPP" -> ".hpp"
      [] s = ".H" -> ".h"
      [] s = "Folder.JPG" -> "folder.jpg"
      [] OTHER -> s

ToSet(s) == {s[i] : i \in 1..Len(s)}

(***************************************************************************)
(* scan_directory                                                          *)
(***************************************************************************)
\* parser defaults of --skip-top-dirs, --skip-all-dirs and --ignore
skip_top_dirs == {"docs", "debug", "release"}

skip_all_dirs == {}

ignore == {}

\* os.walk is top-down: the files of a directory come before the files of
\* its sub-directories; within one directory the listing is in name order
IsPrefix(a, b) == Len(a) <= Len(b) /\ Slice(b, 1, Len(a)) = a

WalkLess(p, q) ==
    IF p.dir = q.dir THEN SeqLess(<<p.base, p.ext>>, <<q.base, q.ext>>)
    ELSE IF IsPrefix(p.dir, q.dir) THEN TRUE
    ELSE IF IsPrefix(q.dir, p.dir) THEN FALSE
    ELSE SeqLess(p.dir, q.dir)

RECURSIVE walk(_)
walk(S) ==
    IF S = {} THEN <<>>
    ELSE LET m == CHOOSE x \in S : \A y \in S \ {x} : WalkLess(x, y)
         IN  <<m>> \o walk(S \ {m})

\* faulty variant: the top-level list prunes at every depth
Walked_TopAtAnyDepth(p, o) ==
    \A i \in 1..Len(p.dir) :
        /\ Lower(p.dir[i]) \notin {Lower(x) : x \in o.skip_top_dirs}
        /\ Lower(p.dir[i]) \notin {Lower(x) : x \in o.skip_all_dirs}

\* the directory of the file is reached by the walk: no pruned directory on
\* the way (rootSkips prune the children of the root only)
Walked(p, o) ==
    /\ Len(p.dir) > 0 => Lower(p.dir[1]) \notin {Lower(x) : x \in o.skip_top_dirs}
    /\ \A i \in 1..Len(p.dir) :
           Lower(p.dir[i]) \notin {Lower(x) : x \in o.skip_all_dirs}

\* "if file.lower() in fileSkips: continue"; a file name is <<base, ext>>
NotIgnored(p, o) ==
    <<Lower(p.base), Lower(p.ext)>>
        \notin {<<Lower(x[1]), Lower(x[2])>> : x \in o.ignore}

\* faulty variant: the extension is compared as it is spelled
scan_directory_CaseSensitive(files, o) ==
    LET seen == SelectSeq(walk(files), LAMBDA p : Walked(p, o) /\ NotIgnored(p, o))
    IN  << SelectSeq(seen, LAMBDA p : p.ext \in {".h", ".hpp"}),
           SelectSeq(seen, LAMBDA p : p.ext \in {".c", ".cpp"}),
           SelectSeq(seen, LAMBDA p : p.ext = ".rc") >>

scan_directory(files, o) ==
    LET seen == SelectSeq(walk(files), LAMBDA p : Walked(p, o) /\ NotIgnored(p, o))
    IN  << SelectSeq(seen, LAMBDA p : Lower(p.ext) \in {".h", ".hpp"}),
           SelectSeq(seen, LAMBDA p : Lower(p.ext) \in {".c", ".cpp"}),
           SelectSeq(seen, LAMBDA p : Lower(p.ext) = ".rc") >>

(***************************************************************************)
(* scan_file                                                               *)
(***************************************************************************)
Kinds == <<"ClInclude", "ClCompile", "ResourceCompile">>

\* groups = [reItemGroupEnd.split(x)[0] for x in reItemGroupBegin.split(data)]
scan_groups(data) ==
    LET g == reItemGroupBegin_split(data)
    IN  [i \in 1..Len(g) |-> reItemGroupEnd_split(g[i])[1]]

\* [x for x in groups if reX.search(x) or reXMl.search(x)]
scan_matching(kind, groups) ==
    SelectSeq(groups, LAMBDA x : reSingle_search(kind, x) \/ reMl_search(kind, x))

\* reX.findall(g) + [x[0] for x in reXMl.findall(g)], [] without a group
scan_entries(kind, matching) ==
    IF Len(matching) = 0 THEN <<>>
    ELSE reSingle_findall(kind, matching[1]) \o reMl_findall(kind, matching[1])

\* faulty variant: takes the first group instead of raising
scan_file_NoCheck(data) ==
    LET groups == scan_groups(data)
        m == [i \in 1..3 |-> scan_matching(Kinds[i], groups)]
    IN  [err |-> "", res |-> [i \in 1..3 |-> scan_entries(Kinds[i], m[i])]]

scan_file(data) ==
    LET groups == scan_groups(data)
        m == [i \in 1..3 |-> scan_matching(Kinds[i], groups)]
    IN  IF \E i \in 1..3 : Len(m[i]) > 1
        THEN [err |-> "Could not determine location", res |-> <<>>]
        ELSE [err |-> "", res |-> [i \in 1..3 |-> scan_entries(Kinds[i], m[i])]]

(***************************************************************************)
(* rebuild_group and write_project                                         *)
(***************************************************************************)
\* rebuild_group(group, files, kind) with indent=None, end=None
rebuild_group(group, files, kind) ==
    LET indent == reIndent(group)
        split == reItemGroupEnd_split(group)
        stripped == [i \in 1..(Len(split) - 1) |-> StripNL(split[i + 1])]
        extra == SelectSeq(stripped, LAMBDA x : ~IsBlank(x))
        entries == [i \in 1..Len(files) |-> indent \o <<Entry(kind, files[i])>>]
    IN  Join(<<NL>>, entries \o extra \o << <<>> >>)

\* the condition of the if / elif chain of write_project for one entry type:
\* "not done and reX.search(group) or reXMl.search(group)"
wp_matches(done, kind, group) ==
    (~done /\ reSingle_search(kind, group)) \/ reMl_search(kind, group)

\* the for loop of write_project from group i on; done[k] is doneIncludes,
\* doneCompiles, doneResource
RECURSIVE wp_loop(_, _, _, _)
wp_loop(groups, files, done, i) ==
    IF i > Len(groups) THEN [groups |-> groups, done |-> done]
    ELSE LET hit == {k \in 1..3 : wp_matches(done[k], Kinds[k], groups[i])}
         IN  IF hit = {} THEN wp_loop(groups, files, done, i + 1)
             ELSE LET k == CHOOSE x \in hit : \A y \in hit : x <= y
                  IN  wp_loop(Slice(groups, 1, i - 1)
                                \o <<rebuild_group(groups[i], files[k], Kinds[k])>>
                                \o Slice(groups, i + 1, Len(groups)),
                              files, [done EXCEPT ![k] = TRUE], i + 1)

\* write_project up to the call of backupFile: the groups to write and the
\* indentation of <ItemGroup>, or the exception raised
write_project(data, files) ==
    LET split == reItemGroupBegin_split(data)
        groups0 == [i \in 1..Len(split) |-> StripNL(split[i])]
        r == wp_loop(groups0, files, <<FALSE, FALSE, FALSE>>, 1)
        lastAndExtra == r.groups[Len(r.groups)]
        end == reItemGroupEnd_search(lastAndExtra)
        indentGroup == StripNL(reIndent(end))
        allDone == r.done[1] /\ r.done[2] /\ r.done[3]
    IN  IF end = <<>>
        THEN [err |-> "Error in formatting of original project file.",
              groups |-> <<>>, indentGroup |-> <<>>]
        ELSE IF allDone
        THEN [err |-> "", groups |-> r.groups, indentGroup |-> indentGroup]
        ELSE IF Len(reItemGroupEnd_split(lastAndExtra)) # 2
        THEN [err |-> "Error inserting missing item groups.",
              groups |-> <<>>, indentGroup |-> <<>>]
        \* rebuild_group(u'', ..., indent=indent, end=end) gets end as a
        \* non-empty str and evaluates end.group(0)
        ELSE [err |-> "AttributeError", groups |-> <<>>, indentGroup |-> <<>>]

\* groups = (indentGroup+u'<ItemGroup>\r\n').join(groups)
wp_text(groups, indentGroup) == Join(indentGroup \o <<IG, NL>>, groups)

(***************************************************************************)
(* write_filter and write_group                                            *)
(***************************************************************************)
Line(n, tok) == Spaces(n) \o <<tok, NL>>

RECURSIVE Concat(_)
Concat(parts) == IF Len(parts) = 0 THEN <<>> ELSE parts[1] \o Concat(Tail(parts))

\* os.path.dirname of a relative path
dirname(p) == p.dir

\* faulty variant: a name of one segment is kept when the first is lopped off
filter_names_KeepSingle(files, remove_first_dir_name) ==
    LET names == {dirname(files[i]) : i \in 1..Len(files)} \ {<<>>}
    IN  IF remove_first_dir_name
        THEN {IF Len(n) > 1 THEN Tail(n) ELSE n : n \in names}
        ELSE names

\* the filter sets of one category: the directory names without u'', and with
\* --remove-first-dir-name each name.split(os.path.sep, 1)[1] where the split
\* has two parts
filter_names(files, remove_first_dir_name) ==
    LET names == {dirname(files[i]) : i \in 1..Len(files)} \ {<<>>}
    IN  IF remove_first_dir_name
        THEN {Tail(n) : n \in {m \in names : Len(m) > 1}}
        ELSE names

\* faulty variant: the first directory name is kept in the filter of a file
file_filter_KeepFirst(file, filterBase, remove_first_dir_name) ==
    <<filterBase>> \o file.dir

\* the filter of one file in write_group:
\* os.path.join(filterBase, os.path.dirname(filter_file)).strip(os.path.sep)
file_filter(file, filterBase, remove_first_dir_name) ==
    LET filter_dir == IF remove_first_dir_name /\ Len(file.dir) > 0
                      THEN Tail(file.dir)
                      ELSE file.dir
    IN  <<filterBase>> \o filter_dir

write_group(files, filterBase, itemKind, remove_first_dir_name) ==
    Line(1, IG)
      \o Concat([i \in 1..Len(files) |->
                   Line(2, EntryMl(MlKind(itemKind), files[i],
                                   file_filter(files[i], filterBase,
                                               remove_first_dir_name)))])
      \o Line(1, EG)

\* one standard filter: the declaration, UniqueIdentifier, Extensions, </Filter>
standard_filter(name) ==
    Line(2, FilterDecl(<<name>>)) \o Line(3, X) \o Line(3, X) \o Line(2, X)

extra_filters(filterBase, names) ==
    Concat([i \in 1..Len(names) |->
              Line(2, FilterDecl(<<filterBase>> \o names[i])) \o Line(2, X)])

\* everything write_filter writes to the file
write_filter(files, remove_first_dir_name) ==
    LET headerFilters == sortedDirs(filter_names(files[1], remove_first_dir_name))
        sourceFilters == sortedDirs(filter_names(files[2], remove_first_dir_name))
        resourceFilters == sortedDirs(filter_names(files[3], remove_first_dir_name))
    IN  Line(0, X) \o Line(0, X) \o Line(1, IG)
          \o standard_filter("Source Files")
          \o standard_filter("Header Files")
          \o standard_filter("Resource Files")
          \o extra_filters("Header Files", headerFilters)
          \o extra_filters("Resource Files", resourceFilters)
          \o extra_filters("Source Files", sourceFilters)
          \o Line(1, EG)
          \o write_group(files[1], "Header Files", "ClInclude", remove_first_dir_name)
          \o write_group(files[3], "Resource Files", "ResourceCompile",
                         remove_first_dir_name)
          \o write_group(files[2], "Source Files", "ClCompile", remove_first_dir_name)
          \o Line(0, X)

(***************************************************************************)
(* The files of the scanned tree and the project files of the runs         *)
(***************************************************************************)
h_a == MkPath(<<"inc">>, "a", ".h")

c_a == MkPath(<<"src">>, "a", ".cpp")

r_x == MkPath(<<"res">>, "x", ".rc")

c_b == MkPath(<<>>, "b", ".CPP")

t_readme == MkPath(<<>>, "readme", ".txt")

c_gen == MkPath(<<"Debug">>, "gen", ".cpp")

h_b == MkPath(<<"src", "sub">>, "b", ".h")

h_a2 == MkPath(<<"inc">>, "b", ".h")

h_c == MkPath(<<"inc", "sub">>, "c", ".h")

\* declared in project files only
h_old == MkPath(<<>>, "old", ".h")

c_old == MkPath(<<>>, "old", ".cpp")

Trees ==
    { {},
      {h_a, c_a, r_x},
      {c_a, r_x},
      {h_a, r_x},
      {h_a, c_a, r_x, c_b, t_readme, c_gen},
      {h_a, c_a, r_x, h_b},
      {h_a, h_a2, h_b, h_c, c_a, r_x} }

\* one group of a project file, indented by ind units
GroupText(ind, what) ==
    CASE what = "inc" ->
           Line(ind, IG) \o Line(ind + 1, Entry("ClInclude", h_a))
             \o Line(ind + 1, Entry("ClInclude", h_old)) \o Line(ind, EG)
      [] what = "incMl" ->
           Line(ind, IG) \o Line(ind + 1, EntryMl("ClIncludeMl", h_old, <<>>))
             \o Line(ind, EG)
      \* a compile group that declares one file
      [] what = "compA" ->
           Line(ind, IG) \o Line(ind + 1, Entry("ClCompile", c_a)) \o Line(ind, EG)
      [] what = "comp" ->
           Line(ind, IG) \o Line(ind + 1, Entry("ClCompile", c_a))
             \o Line(ind + 1, Entry("ClCompile", c_old)) \o Line(ind, EG)
      [] what = "compMl" ->
           Line(ind, IG) \o Line(ind + 1, Entry("ClCompile", c_old))
             \o Line(ind + 1, EntryMl("ClCompileMl", c_a, <<>>)) \o Line(ind, EG)
      [] what = "res" ->
           Line(ind, IG) \o Line(ind + 1, Entry("ResourceCompile", r_x))
             \o Line(ind, EG)
      [] what = "resMl" ->
           Line(ind, IG) \o Line(ind + 1, EntryMl("ResourceCompileMl", r_x, <<>>))
             \o Line(ind, EG)
      \* the closing tag on the line of the entry
      [] what = "resInline" ->
           Line(ind, IG)
             \o Spaces(ind + 1) \o <<Entry("ResourceCompile", r_x), SP, EG, NL>>
      [] what = "incComp" ->
           Line(ind, IG) \o Line(ind + 1, Entry("ClInclude", h_a))
             \o Line(ind + 1, Entry("ClCompile", c_a)) \o Line(ind, EG)
      \* a group of other items, <None Include=".." />
      [] what = "other" ->
           Line(ind, IG) \o Line(ind + 1, X) \o Line(ind, EG)
      \* <ItemGroup Label=".."> with other items: not an <ItemGroup> marker
      [] what = "lab" ->
           Line(ind, X) \o Line(ind + 1, X) \o Line(ind, EG)
      \* <ItemGroup Condition=".."> with a compile entry
      [] what = "labComp" ->
           Line(ind, X) \o Line(ind + 1, Entry("ClCompile", c_gen)) \o Line(ind, EG)
      \* <ItemGroup Condition=".."> with a multi-line compile entry
      [] what = "labCompMl" ->
           Line(ind, X) \o Line(ind + 1, EntryMl("ClCompileMl", c_gen, <<>>))
             \o Line(ind, EG)

\* <?xml ..?> <Project ..> groups <Import ../> </Project>
ProjectText(ind, layout, finalNL) ==
    Line(0, X) \o Line(0, X)
      \o Concat([i \in 1..Len(layout) |-> GroupText(ind, layout[i])])
      \o Line(ind, X) \o <<X>> \o (IF finalNL THEN <<NL>> ELSE <<>>)

Layouts ==
    { <<"inc", "comp", "res">>,
      <<"lab", "inc", "comp", "res">>,
      <<"other", "inc", "comp", "res">>,
      <<"inc", "comp", "res", "other">>,
      <<"inc", "compMl", "res">>,
      <<"inc", "res">>,
      <<"comp", "res">>,
      <<"inc", "comp">>,
      <<"incComp", "res">>,
      <<"inc", "comp", "comp", "res">>,
      <<"inc", "compMl", "comp", "res">>,
      <<"inc", "inc", "comp", "res">>,
      <<"incMl", "comp", "res", "incMl">>,
      <<"inc", "comp", "res", "resMl">>,
      <<"other", "labComp", "inc", "comp", "res">>,
      <<"inc", "comp", "other", "labCompMl", "res">>,
      <<"inc", "comp", "resInline">>,
      <<"compA">>,
      <<>> }

StandardProject == ProjectText(1, <<"inc", "comp", "res">>, TRUE)

\* every layout indented by one unit; the usual layouts also without
\* indentation, and one file without a line break at its end
Projects ==
    {ProjectText(1, layout, TRUE) : layout \in Layouts}
      \cup {ProjectText(0, layout, TRUE) :
               layout \in { <<"inc", "comp", "res">>,
                            <<"lab", "inc", "comp", "res">>,
                            <<"inc", "res">> }}
      \cup {ProjectText(1, <<"inc", "comp", "res">>, FALSE)}

\* file names: the name split at its dots, so that path+u'.bak' appends
vcxproj(stem) == <<stem, ".vcxproj">>

CBash == vcxproj("CBash")

Stems == {"CBash", "p", "q"}

FileNames ==
    UNION { {vcxproj(s), vcxproj(s) \o <<".bak">>, vcxproj(s) \o <<".filters">>,
             vcxproj(s) \o <<".filters", ".bak">>} : s \in Stems }

Absent == [exists |-> FALSE, data |-> <<>>]

File(data) == [exists |-> TRUE, data |-> data]

\* a filter file left by an earlier run on another tree
OldFilter == write_filter(<<<<h_old>>, <<c_a>>, <<>>>>, FALSE)

Versions == {"2.7", "3"}

(***************************************************************************)
(* State                                                                   *)
(***************************************************************************)
VARIABLES
    tree,          \* the files under the working directory (not the project files)
    version,       \* sys.version_info[0:2] of the interpreter: "2.7" or "3"
    fs,            \* the project, filter and .bak files: name -> [exists, data]
    opts,          \* the parsed command line of the current run
    pc,            \* where the current run of main() is
    runs,          \* number of runs started
    projFile,      \* main: projFile, <<>> before it is set
    filterFile,    \* main: filterFile
    files,         \* main: files = scan_directory(..)
    projectFiles,  \* main: projectFiles = scan_project(..)
    filtersFiles,  \* main: filtersFiles = scan_filter(..)
    pending,       \* write_project: groups and indentGroup at the open() call
    report,        \* the lists printed by the scan-only branch
    summary,       \* the counts printed after an update
    err,           \* the exception that ended the run, "" for none
    start,         \* fs when the current run started
    cur,           \* what the current run has done so far
    prev           \* how the previous run ended

\* folder_jpg.py
VARIABLES
    attribs,       \* the attributes of each file under the walked directory
    walking,       \* walk_and_set: where it is, its flags, the files to come
    walked         \* the attributes before this walk, the calls of the walks

projVars == <<tree, version, fs, opts, pc, runs, projFile, filterFile, files,
              projectFiles, filtersFiles, pending, report, summary, err, start,
              cur, prev>>

\* venvconfig
VARIABLES
    config,        \* the Config object: path, name, requirements
    cfgfile,       \* the configuration file save_config and read_config use
    env,           \* the interpreter's environment: sys.prefix, the venv, pip
    argv,          \* sys.argv
    proc           \* the calls of the process: where it is, what it has done

folderVars == <<attribs, walking, walked>>

venvVars == <<config, cfgfile, env, argv, proc>>

vars == <<projVars, folderVars, venvVars>>

notProject == <<folderVars, venvVars>>

notFolder == <<projVars, venvVars>>

notVenv == <<projVars, folderVars>>

\* project_update.py is not running
ProjectOff ==
    /\ tree = {}
    /\ version = "3"
    /\ fs = <<>>
    /\ opts = <<>>
    /\ pc = "off"
    /\ runs = 0
    /\ projFile = <<>>
    /\ filterFile = <<>>
    /\ files = <<>>
    /\ projectFiles = <<>>
    /\ filtersFiles = <<>>
    /\ pending = <<>>
    /\ report = <<>>
    /\ summary = <<>>
    /\ err = ""
    /\ start = <<>>
    /\ cur = <<>>
    /\ prev = <<>>

\* folder_jpg.py is not running
FolderOff ==
    /\ attribs = <<>>
    /\ walking = [pc |-> "off", flags |-> {}, todo |-> <<>>]
    /\ walked = <<>>

\* venvconfig is not in use
VenvOff ==
    /\ config = <<>>
    /\ cfgfile = <<>>
    /\ env = <<>>
    /\ argv = <<>>
    /\ proc = <<>>

None == <<>>

NoPending == [groups |-> <<>>, indentGroup |-> <<>>]

NoRun == [pc |-> "idle", scan_only |-> FALSE, wp |-> FALSE, wf |-> FALSE,
          scanned |-> FALSE, projFile |-> None, filterFile |-> None]

Fresh == [wp |-> FALSE, wf |-> FALSE, scanned |-> FALSE]

isfile(f, path) == path \in DOMAIN f /\ f[path].exists

\* readUTF8: the decoded text (the signature of utf-8-sig is not part of it)
readUTF8(f, path) == f[path].data

\* faulty variant: an existing .bak is kept
backupFile_KeepOld(f, path) ==
    IF isfile(f, path) /\ ~isfile(f, path \o <<".bak">>)
    THEN [f EXCEPT ![path \o <<".bak">>] = File(f[path].data)]
    ELSE f

\* backupFile(path)
backupFile(f, path) ==
    IF isfile(f, path)
    THEN [f EXCEPT ![path \o <<".bak">>] = File(f[path].data)]
    ELSE f

\* the files of the working directory before the first run
InitFiles(proj, filt) ==
    [n \in FileNames |->
        IF n = vcxproj("p") THEN File(proj)
        ELSE IF n = vcxproj("p") \o <<".filters">> THEN filt
        ELSE Absent]

LocateFiles(present) ==
    [n \in FileNames |->
        IF \E s \in present : n = vcxproj(s) THEN File(StandardProject)
        ELSE Absent]

Opts(scan_only, no_filter, remove_first_dir_name, project, filter) ==
    [scan_only |-> scan_only, no_filter |-> no_filter,
     remove_first_dir_name |-> remove_first_dir_name,
     project |-> project, filter |-> filter,
     skip_top_dirs |-> skip_top_dirs, skip_all_dirs |-> skip_all_dirs,
     ignore |-> ignore]

Init ==
    /\ \/ /\ version = "2.7"
          /\ tree \in Trees
          /\ \E proj \in Projects, filt \in {Absent, File(OldFilter)} :
                 fs = InitFiles(proj, filt)
          /\ \E o \in {<<FALSE, FALSE>>, <<TRUE, FALSE>>, <<FALSE, TRUE>>} :
                 opts = Opts(FALSE, o[1], o[2], None, None)
       \/ /\ version = "3"
          /\ tree = {h_a, c_a, r_x}
          /\ \E ind \in {0, 1}, filt \in {Absent, File(OldFilter)} :
                 fs = InitFiles(ProjectText(ind, <<"inc", "comp", "res">>, TRUE), filt)
          /\ \E n \in BOOLEAN : opts = Opts(FALSE, n, FALSE, None, None)
       \/ /\ version \in Versions
          /\ tree = {h_a, c_a, r_x}
          /\ \E present \in SUBSET Stems : fs = LocateFiles(present)
          /\ \E project \in {None, vcxproj("p"), vcxproj("q"), vcxproj("missing")},
                filter \in {None, vcxproj("q") \o <<".filters">>} :
                 opts = Opts(FALSE, FALSE, FALSE, project, filter)
    /\ pc = "idle"
    /\ runs = 0
    /\ projFile = None
    /\ filterFile = None
    /\ files = <<>>
    /\ projectFiles = <<>>
    /\ filtersFiles = <<>>
    /\ pending = NoPending
    /\ report = <<>>
    /\ summary = <<>>
    /\ err = ""
    /\ start = fs
    /\ cur = Fresh
    /\ prev = NoRun
    /\ FolderOff
    /\ VenvOff

Ended == pc \in {"idle", "done", "returned", "fatal"}

(***************************************************************************)
(* One run of main()                                                       *)
(***************************************************************************)
\* the script is started: opts = parser.parse_args()
StartRun(scan_only) ==
    /\ Ended
    /\ runs < MaxRuns
    /\ runs' = runs + 1
    /\ opts' = [opts EXCEPT !.scan_only = scan_only]
    /\ pc' = "main"
    /\ prev' = [pc |-> pc, scan_only |-> opts.scan_only, wp |-> cur.wp,
                wf |-> cur.wf, scanned |-> cur.scanned,
                projFile |-> projFile, filterFile |-> filterFile]
    /\ cur' = Fresh
    /\ start' = fs
    /\ projFile' = None
    /\ filterFile' = None
    /\ files' = <<>>
    /\ projectFiles' = <<>>
    /\ filtersFiles' = <<>>
    /\ pending' = NoPending
    /\ report' = <<>>
    /\ summary' = <<>>
    /\ err' = ""
    /\ UNCHANGED <<tree, version, fs>>

\* candidates = [x for x in os.listdir(getcwd())
\*               if x.lower().endswith(u'.vcxproj') and os.path.isfile(x)]
candidates(f) ==
    {x \in DOMAIN f : Lower(x[Len(x)]) = ".vcxproj" /\ isfile(f, x)}

\* faulty variant: takes some candidate when there are several
find_project_AnyCandidate(f, o) ==
    IF o.project # None /\ isfile(f, o.project) THEN o.project
    ELSE IF isfile(f, CBash) THEN CBash
    ELSE IF candidates(f) = {} THEN None
    ELSE CHOOSE x \in candidates(f) : TRUE

\* the project file main() works on, None when it returns at "Could not find
\* the project file"
find_project(f, o) ==
    IF o.project # None /\ isfile(f, o.project) THEN o.project
    ELSE IF isfile(f, CBash) THEN CBash
    ELSE IF Cardinality(candidates(f)) # 1 THEN None
    ELSE CHOOSE x \in candidates(f) : TRUE

find_filter(f, o, proj) ==
    IF o.filter # None /\ isfile(f, o.filter) THEN o.filter
    ELSE proj \o <<".filters">>

\* main: find the .vcxproj file and the .vcxproj.filters file
Locate ==
    /\ pc = "main"
    /\ LET proj == find_project(fs, opts)
       IN  IF proj = None
           THEN /\ pc' = "returned"
                /\ UNCHANGED <<projFile, filterFile>>
           ELSE /\ pc' = "scan_directory"
                /\ projFile' = proj
                /\ filterFile' = find_filter(fs, opts, proj)
    /\ UNCHANGED <<tree, version, fs, opts, runs, files, projectFiles,
                   filtersFiles, pending, report, summary, err, start, cur, prev>>

\* main: files = scan_directory(getcwd(), opts)
ScanDirectory ==
    /\ pc = "scan_directory"
    /\ files' = scan_directory(tree, opts)
    /\ cur' = [cur EXCEPT !.scanned = TRUE]
    /\ pc' = "scan_project"
    /\ UNCHANGED <<tree, version, fs, opts, runs, projFile, filterFile,
                   projectFiles, filtersFiles, pending, report, summary, err,
                   start, prev>>

\* main: projectFiles = scan_project(projFile)
ScanProject ==
    /\ pc = "scan_project"
    /\ LET r == scan_file(readUTF8(fs, projFile))
       IN  IF r.err # ""
           THEN /\ pc' = "fatal"
                /\ err' = r.err
                /\ UNCHANGED projectFiles
           ELSE /\ pc' = "scan_filter"
                /\ projectFiles' = r.res
                /\ UNCHANGED err
    /\ UNCHANGED <<tree, version, fs, opts, runs, projFile, filterFile, files,
                   filtersFiles, pending, report, summary, start, cur, prev>>

\* scan_filter(path)
scan_filter(f, path) ==
    IF isfile(f, path) THEN scan_file(readUTF8(f, path))
    ELSE [err |-> "", res |-> << <<>>, <<>>, <<>> >>]

\* faulty variant: the scan-only flag is not looked at
ScanFilter_IgnoreFlag ==
    /\ pc = "scan_filter"
    /\ LET r == scan_filter(fs, filterFile)
       IN  IF r.err # ""
           THEN /\ pc' = "fatal"
                /\ err' = r.err
                /\ UNCHANGED filtersFiles
           ELSE /\ pc' = "write_project"
                /\ filtersFiles' = r.res
                /\ UNCHANGED err
    /\ UNCHANGED <<tree, version, fs, opts, runs, projFile, filterFile, files,
                   projectFiles, pending, report, summary, start, cur, prev>>

\* main: filtersFiles = scan_filter(filterFile)
ScanFilter ==
    /\ pc = "scan_filter"
    /\ LET r == scan_filter(fs, filterFile)
       IN  IF r.err # ""
           THEN /\ pc' = "fatal"
                /\ err' = r.err
                /\ UNCHANGED filtersFiles
           ELSE /\ pc' = IF opts.scan_only THEN "report" ELSE "write_project"
                /\ filtersFiles' = r.res
                /\ UNCHANGED err
    /\ UNCHANGED <<tree, version, fs, opts, runs, projFile, filterFile, files,
                   projectFiles, pending, report, summary, start, cur, prev>>

\* faulty variant: the two project differences are exchanged
report_kind_Swapped(real, proj, filt) ==
    LET projMissing == proj \ real
        projExtra == real \ proj
        filtMissing == real \ filt
        filtExtra == filt \ real
    IN  [projMissing |-> sorted(projMissing),
         projExtra |-> sorted(projExtra),
         filtMissing |-> sorted(filtMissing),
         filtExtra |-> sorted(filtExtra),
         none |-> (projMissing \cup projExtra \cup filtMissing \cup filtExtra) = {}]

\* the four lists printed for one category; an empty list is not printed
report_kind(real, proj, filt) ==
    LET projMissing == real \ proj
        projExtra == proj \ real
        filtMissing == real \ filt
        filtExtra == filt \ real
    IN  [projMissing |-> sorted(projMissing),
         projExtra |-> sorted(projExtra),
         filtMissing |-> sorted(filtMissing),
         filtExtra |-> sorted(filtExtra),
         none |-> (projMissing \cup projExtra \cup filtMissing \cup filtExtra) = {}]

\* main: "if opts.scan_only:" the report, then return
Report ==
    /\ pc = "report"
    /\ report' = [i \in 1..3 |->
                    report_kind(ToSet(files[i]), ToSet(projectFiles[i]),
                                ToSet(filtersFiles[i]))]
    /\ pc' = "done"
    /\ UNCHANGED <<tree, version, fs, opts, runs, projFile, filterFile, files,
                   projectFiles, filtersFiles, pending, summary, err, start,
                   cur, prev>>

\* faulty variant: the backup is made before the structure is checked
WriteProject_BackupFirst ==
    /\ pc = "write_project"
    /\ LET r == write_project(readUTF8(fs, projFile), files)
       IN  /\ fs' = backupFile(fs, projFile)
           /\ IF r.err # ""
              THEN /\ pc' = "fatal"
                   /\ err' = r.err
                   /\ UNCHANGED pending
              ELSE /\ pc' = "write_project_open"
                   /\ pending' = [groups |-> r.groups, indentGroup |-> r.indentGroup]
                   /\ UNCHANGED err
    /\ UNCHANGED <<tree, version, opts, runs, projFile, filterFile, files,
                   projectFiles, filtersFiles, report, summary, start, cur, prev>>

\* write_project(projFile, files) up to and including backupFile(path)
WriteProject ==
    /\ pc = "write_project"
    /\ LET r == write_project(readUTF8(fs, projFile), files)
       IN  IF r.err # ""
           THEN /\ pc' = "fatal"
                /\ err' = r.err
                /\ UNCHANGED <<fs, pending>>
           ELSE /\ pc' = "write_project_open"
                /\ fs' = backupFile(fs, projFile)
                /\ pending' = [groups |-> r.groups, indentGroup |-> r.indentGroup]
                /\ UNCHANGED err
    /\ UNCHANGED <<tree, version, opts, runs, projFile, filterFile, files,
                   projectFiles, filtersFiles, report, summary, start, cur, prev>>

\* open(path, 'wb', encoding='utf-8-sig'): codecs.open under Python 2.7; the
\* built-in open of Python 3 rejects an encoding in binary mode before it
\* touches the file
open_fails == version # "2.7"

\* write_project: "with open(..) as out:" and the write
WriteProjectOut ==
    /\ pc = "write_project_open"
    /\ IF open_fails
       THEN /\ pc' = "fatal"
            /\ err' = "ValueError"
            /\ UNCHANGED <<fs, cur>>
       ELSE /\ fs' = [fs EXCEPT ![projFile] =
                         File(wp_text(pending.groups, pending.indentGroup))]
            /\ cur' = [cur EXCEPT !.wp = TRUE]
            /\ pc' = IF opts.no_filter THEN "summary" ELSE "write_filter"
            /\ UNCHANGED err
    /\ UNCHANGED <<tree, version, opts, runs, projFile, filterFile, files,
                   projectFiles, filtersFiles, pending, report, summary, start,
                   prev>>

\* write_filter(filterFile, files, opts) up to and including backupFile(path)
WriteFilter ==
    /\ pc = "write_filter"
    /\ fs' = backupFile(fs, filterFile)
    /\ pc' = "write_filter_open"
    /\ UNCHANGED <<tree, version, opts, runs, projFile, filterFile, files,
                   projectFiles, filtersFiles, pending, report, summary, err,
                   start, cur, prev>>

\* write_filter: "with open(..) as out:" and the writes
WriteFilterOut ==
    /\ pc = "write_filter_open"
    /\ IF open_fails
       THEN /\ pc' = "fatal"
            /\ err' = "ValueError"
            /\ UNCHANGED <<fs, cur>>
       ELSE /\ fs' = [fs EXCEPT ![filterFile] =
                         File(write_filter(files, opts.remove_first_dir_name))]
            /\ cur' = [cur EXCEPT !.wf = TRUE]
            /\ pc' = "summary"
            /\ UNCHANGED err
    /\ UNCHANGED <<tree, version, opts, runs, projFile, filterFile, files,
                   projectFiles, filtersFiles, pending, report, summary, start,
                   prev>>

\* main: the "Removed %i and added %i" lines
Summary ==
    /\ pc = "summary"
    /\ summary' = [i \in 1..3 |->
                     LET proj == ToSet(projectFiles[i])
                         filt == ToSet(filtersFiles[i])
                         real == ToSet(files[i])
                     IN  [projRemoved |-> Cardinality(proj \ real),
                          projAdded |-> Cardinality(real \ proj),
                          filtRemoved |-> Cardinality(filt \ real),
                          filtAdded |-> Cardinality(real \ filt)]]
    /\ pc' = "done"
    /\ UNCHANGED <<tree, version, fs, opts, runs, projFile, filterFile, files,
                   projectFiles, filtersFiles, pending, report, err, start,
                   cur, prev>>

\* project_update.py runs alone: the other scripts' state stays as it is
Next ==
    \/ (\E scan_only \in BOOLEAN : StartRun(scan_only)) /\ UNCHANGED notProject
    \/ Locate /\ UNCHANGED notProject
    \/ ScanDirectory /\ UNCHANGED notProject
    \/ ScanProject /\ UNCHANGED notProject
    \/ ScanFilter /\ UNCHANGED notProject
    \/ Report /\ UNCHANGED notProject
    \/ WriteProject /\ UNCHANGED notProject
    \/ WriteProjectOut /\ UNCHANGED notProject
    \/ WriteFilter /\ UNCHANGED notProject
    \/ WriteFilterOut /\ UNCHANGED notProject
    \/ Summary /\ UNCHANGED notProject

Spec == Init /\ [][Next]_vars

(***************************************************************************)
(* Notions used by the properties                                          *)
(***************************************************************************)
bak(path) == path \o <<".bak">>

\* the project file of the current run as it was when the run started
Before == start[projFile].data

\* number of groups that scan_file counts for entry type k
GroupCount(data, k) == Len(scan_matching(Kinds[k], scan_groups(data)))

IsEntry(tok) ==
    tok.t \in {"ClInclude", "ClCompile", "ResourceCompile",
               "ClIncludeMl", "ClCompileMl", "ResourceCompileMl"}

\* the text without its entry lines: an entry, the blanks in front of it and
\* the line break after it
RECURSIVE DropEntryLines(_)
DropEntryLines(s) ==
    IF Len(s) = 0 THEN <<>>
    ELSE LET n == Len(reIndent(s))
         IN  IF n < Len(s) /\ IsEntry(s[n + 1])
                /\ \A i \in 1..n : s[i].t = "SP"
             THEN DropEntryLines(
                      IF n + 1 < Len(s) /\ s[n + 2].t = "NL"
                      THEN Slice(s, n + 3, Len(s))
                      ELSE Slice(s, n + 2, Len(s)))
             ELSE <<s[1]>> \o DropEntryLines(Tail(s))

\* the groups of a file as the text between an <ItemGroup> marker and the
\* next </ItemGroup>, wherever that closing tag stands on its line
TextToClose(chunk) ==
    IF \E i \in 1..Len(chunk) : chunk[i].t = "EG"
    THEN Slice(chunk, 1,
               (CHOOSE i \in 1..Len(chunk) :
                    /\ chunk[i].t = "EG"
                    /\ \A j \in 1..(i - 1) : chunk[j].t # "EG") - 1)
    ELSE chunk

MarkedGroups(data) ==
    LET chunks == reItemGroupBegin_split(data)
    IN  [i \in 1..(Len(chunks) - 1) |-> TextToClose(chunks[i + 1])]

Ambiguous(data) ==
    LET groups == MarkedGroups(data)
    IN  \E k \in 1..3 :
            Cardinality({i \in 1..Len(groups) :
                            \/ reSingle_search(Kinds[k], groups[i])
                            \/ reMl_search(Kinds[k], groups[i])}) > 1

LastGroupHasClose(data) ==
    LET chunks == reItemGroupBegin_split(data)
    IN  reItemGroupEnd_search(chunks[Len(chunks)]) # <<>>

StructuralErrors ==
    {"Could not determine location",
     "Error in formatting of original project file.",
     "Error inserting missing item groups."}

IsSorted(list) == \A i, j \in 1..Len(list) : i < j => PathLess(list[i], list[j])

(***************************************************************************)
(* Properties                                                              *)
(***************************************************************************)
\* C1: when write_project succeeded in an update run, write_project in the
\* next update run on the unchanged tree succeeds too and leaves the project
\* file as the first run wrote it.
C1_WriteProjectIdempotent ==
    (prev.wp /\ ~opts.scan_only /\ pc \in {"done", "fatal"})
        => (cur.wp /\ fs[projFile] = start[projFile])

\* C2: a scan-only run that follows an update run in which both writers ran
\* completes, finds the paths declared in the project file and in the filter
\* file equal to the files on disk, and so reports nothing missing or extra.
C2_WriteThenScan ==
    (prev.wp /\ prev.wf /\ opts.scan_only /\ pc \in {"done", "fatal"})
        => /\ pc = "done"
           /\ \A i \in 1..3 :
                 /\ ToSet(projectFiles[i]) = ToSet(files[i])
                 /\ ToSet(filtersFiles[i]) = ToSet(files[i])
                 /\ report[i].none

\* C3: for a project file with exactly one include, one compile and one
\* resource group, write_project changes the entry lines only: the rest of
\* the text is what it was.
C3_VerbatimOutside ==
    (cur.wp /\ \A k \in 1..3 : GroupCount(Before, k) = 1)
        => DropEntryLines(fs[projFile].data) = DropEntryLines(Before)

\* C4: with a project file that has more than one group of the same entry
\* type, a run gets no further than scanning the project file and can only
\* end with the fatal "Could not determine location" error, in both modes.
C4_AmbiguousIsFatal ==
    (projFile # None /\ Ambiguous(Before))
        => /\ pc \in {"scan_directory", "scan_project", "fatal"}
           /\ pc = "fatal" => err = "Could not determine location"

C4_Witness ==
    /\ pc = "fatal"
    /\ ~opts.scan_only
    /\ Ambiguous(Before)
    /\ GroupCount(Before, 2) = 2

\* C5: a run that ended with a fatal structural error has left every project,
\* filter and .bak file as it was when the run started.
C5_FatalBeforeWrite ==
    (pc = "fatal" /\ err \in StructuralErrors) => fs = start

C5_Witness ==
    /\ pc = "fatal"
    /\ err = "Error in formatting of original project file."
    /\ fs = start
    /\ ~isfile(fs, bak(projFile))

\* C6: when the project file lacks the group of an entry type and its last
\* group has a closing tag, write_project completes and the written file
\* declares, for each entry type, exactly the files on disk.
C6_MissingGroupSynthesized ==
    (/\ ~opts.scan_only
     /\ pc \in {"done", "fatal"}
     /\ err # "Could not determine location"
     /\ \E k \in 1..3 : GroupCount(Before, k) = 0
     /\ LastGroupHasClose(Before))
        => /\ cur.wp
           /\ scan_file(fs[projFile].data).err = ""
           /\ \A k \in 1..3 : scan_file(fs[projFile].data).res[k] = files[k]

\* C7: when a writer is about to open an existing file for writing, the file
\* is still unchanged and its .bak is a copy of it; after the write the .bak
\* holds what the file held before this write, so after two successful
\* writes in a row it holds the output of the first.
C7_BackupBeforeOverwrite ==
    /\ pc = "write_project_open" =>
          /\ fs[projFile] = start[projFile]
          /\ fs[bak(projFile)] = start[projFile]
    /\ cur.wp => fs[bak(projFile)] = start[projFile]
    /\ (pc = "write_filter_open" /\ isfile(start, filterFile)) =>
          /\ fs[filterFile] = start[filterFile]
          /\ fs[bak(filterFile)] = start[filterFile]
    /\ (cur.wf /\ isfile(start, filterFile)) =>
          fs[bak(filterFile)] = start[filterFile]

C7_Witness ==
    /\ prev.wp /\ prev.wf
    /\ cur.wp /\ cur.wf
    /\ pc = "done"
    /\ fs[bak(projFile)] # fs[projFile]
    /\ fs[bak(filterFile)] = start[filterFile]

\* C8: a scan-only run never reaches write_project, write_filter or
\* backupFile, and every project, filter and .bak file stays as it was.
C8_ScanOnlyReadOnly ==
    opts.scan_only =>
        /\ fs = start
        /\ ~cur.wp /\ ~cur.wf
        /\ pc \notin {"write_project", "write_project_open", "write_filter",
                      "write_filter_open", "summary"}

C8_Witness ==
    /\ opts.scan_only
    /\ pc = "done"
    /\ ~report[1].none
    /\ report[2].projExtra # <<>>

\* C9: the scan-only report lists, per category and in sorted order, exactly
\* the set differences between the files on disk and the paths declared in the
\* project file and in the filter file, and says that nothing is missing
\* exactly when all four differences are empty.
C9_ReportIsDifference ==
    (opts.scan_only /\ pc = "done") =>
        /\ \A i \in 1..3 :
              LET real == ToSet(files[i])
                  proj == ToSet(projectFiles[i])
                  filt == ToSet(filtersFiles[i])
              IN  /\ ToSet(report[i].projMissing) = real \ proj
                  /\ ToSet(report[i].projExtra) = proj \ real
                  /\ ToSet(report[i].filtMissing) = real \ filt
                  /\ ToSet(report[i].filtExtra) = filt \ real
                  /\ IsSorted(report[i].projMissing)
                  /\ IsSorted(report[i].projExtra)
                  /\ IsSorted(report[i].filtMissing)
                  /\ IsSorted(report[i].filtExtra)
                  /\ report[i].none <=>
                        (real = proj /\ real = filt)
        /\ (tree = {h_a, c_a, r_x}
              /\ projectFiles = << <<>>, <<c_a>>, <<>> >>) =>
              /\ report[1].projMissing = <<h_a>>
              /\ report[3].projMissing = <<r_x>>
              /\ \A i \in 1..3 : report[i].projExtra = <<>>

C9_Witness ==
    /\ opts.scan_only
    /\ pc = "done"
    /\ tree = {h_a, c_a, r_x}
    /\ projectFiles = << <<>>, <<c_a>>, <<>> >>
    /\ report[1].projMissing = <<h_a>>

\* no existing --project file, no CBash.vcxproj, zero or several *.vcxproj
NoUsableProject ==
    /\ ~(opts.project # None /\ isfile(start, opts.project))
    /\ ~isfile(start, CBash)
    /\ Cardinality({s \in Stems : isfile(start, vcxproj(s))}) # 1

\* C10: without an existing --project file, without CBash.vcxproj and with
\* zero or several *.vcxproj files, main returns without scanning and without
\* touching a file.
C10_NoProjectNoWork ==
    (runs > 0 /\ NoUsableProject) =>
        /\ pc \in {"main", "returned"}
        /\ ~cur.scanned
        /\ projFile = None
        /\ err = ""
        /\ fs = start

C10_Witness ==
    /\ pc = "returned"
    /\ isfile(fs, vcxproj("p"))
    /\ isfile(fs, vcxproj("q"))
    /\ opts.project = vcxproj("missing")

\* the errors the project file's structure is answered with
MalformedErrors ==
    {"Could not determine location",
     "Error in formatting of original project file."}

\* C11: when the filter file does not exist and the project file is well
\* formed, a run ends with three empty filter categories and no error of the
\* scan, and an update run with filter generation has then created the filter
\* file and made no .bak of it.
C11_AbsentFilterIsNoError ==
    (/\ projFile # None
     /\ ~isfile(start, filterFile)
     /\ pc \in {"done", "fatal"}
     /\ err \notin MalformedErrors) =>
        /\ filtersFiles = << <<>>, <<>>, <<>> >>
        /\ (~opts.scan_only /\ ~opts.no_filter) =>
              /\ isfile(fs, filterFile)
              /\ ~isfile(fs, bak(filterFile))

\* what holds of every run: the scan of an absent filter file gives three
\* empty categories, is never what a run fails with, and a run with filter
\* generation that gets to its end has created the file without a .bak
C11_WhenTheRunCompletes ==
    (projFile # None /\ ~isfile(start, filterFile)) =>
        /\ scan_filter(start, filterFile) =
              [err |-> "", res |-> << <<>>, <<>>, <<>> >>]
        /\ pc = "fatal" => (projectFiles = <<>> \/ filtersFiles # <<>>)
        /\ filtersFiles \in {<<>>, << <<>>, <<>>, <<>> >>}
        /\ fs[bak(filterFile)] = start[bak(filterFile)]
        /\ (pc = "done" /\ ~opts.scan_only /\ ~opts.no_filter) =>
              /\ cur.wf
              /\ isfile(fs, filterFile)

(***************************************************************************)
(* Scan-only runs over directory trees and scan options                    *)
(***************************************************************************)
c_deep == MkPath(<<"src", "Debug">>, "deep", ".cpp")

hpp_A == MkPath(<<"src">>, "A", ".HPP")

c_c == MkPath(<<"src", "sub">>, "c", ".c")

ScanFiles == {h_a, c_b, r_x, t_readme, c_gen, c_deep, hpp_A, c_c}

\* --skip-top-dirs, --skip-all-dirs and --ignore as given on the command line
ScanOptions ==
    { [top |-> t, all |-> a, ign |-> g] :
        t \in {skip_top_dirs, {"Src"}},
        a \in {skip_all_dirs, {"DEBUG"}, {"sub"}},
        g \in {ignore, {<<"A", ".H">>}} }

ScanInit ==
    /\ version = "2.7"
    /\ tree \in SUBSET ScanFiles
    /\ fs = InitFiles(StandardProject, File(OldFilter))
    /\ \E so \in ScanOptions :
           opts = [Opts(TRUE, FALSE, FALSE, None, None) EXCEPT
                       !.skip_top_dirs = so.top,
                       !.skip_all_dirs = so.all,
                       !.ignore = so.ign]
    /\ pc = "idle"
    /\ runs = 0
    /\ projFile = None
    /\ filterFile = None
    /\ files = <<>>
    /\ projectFiles = <<>>
    /\ filtersFiles = <<>>
    /\ pending = NoPending
    /\ report = <<>>
    /\ summary = <<>>
    /\ err = ""
    /\ start = fs
    /\ cur = Fresh
    /\ prev = NoRun
    /\ FolderOff
    /\ VenvOff

ScanNext ==
    \/ StartRun(TRUE) /\ UNCHANGED notProject
    \/ Locate /\ UNCHANGED notProject
    \/ ScanDirectory /\ UNCHANGED notProject
    \/ ScanProject /\ UNCHANGED notProject
    \/ ScanFilter /\ UNCHANGED notProject
    \/ Report /\ UNCHANGED notProject

ScanSpec == ScanInit /\ [][ScanNext]_vars

\* the names of a list, lower-cased
LowerNames(S) == {Lower(x) : x \in S}

DefaultScanOptions ==
    /\ opts.skip_top_dirs = {"docs", "debug", "release"}
    /\ opts.skip_all_dirs = {}
    /\ opts.ignore = {}

Found == ToSet(files[1]) \cup ToSet(files[2]) \cup ToSet(files[3])

\* C12: after scan_directory, a file below a direct child of the root whose
\* lower-cased name is in the top-level list is not found; a file with a
\* directory of the all-depth list anywhere on its way is not found; a source
\* file that is not ignored is found when neither is the case, also when a
\* name of the top-level list stands deeper on its way.  With the default
\* options nothing of Debug/ is found and src/Debug/deep.cpp is.
C12_ExclusionDepth ==
    cur.scanned =>
        /\ \A p \in tree :
              LET top == Len(p.dir) > 0
                           /\ Lower(p.dir[1]) \in LowerNames(opts.skip_top_dirs)
                  all == \E i \in 1..Len(p.dir) :
                             Lower(p.dir[i]) \in LowerNames(opts.skip_all_dirs)
                  wanted == /\ Lower(p.ext) \in {".h", ".hpp", ".c", ".cpp", ".rc"}
                            /\ \A x \in opts.ignore :
                                  <<Lower(x[1]), Lower(x[2])>>
                                      # <<Lower(p.base), Lower(p.ext)>>
              IN  /\ (top \/ all) => p \notin Found
                  /\ (wanted /\ ~top /\ ~all) => p \in Found
        /\ DefaultScanOptions =>
              /\ c_gen \notin Found
              /\ c_deep \in tree => c_deep \in ToSet(files[2])

C12_Witness ==
    /\ cur.scanned
    /\ DefaultScanOptions
    /\ {c_gen, c_deep} \subseteq tree
    /\ c_gen \notin Found
    /\ c_deep \in ToSet(files[2])

\* in all-depth mode the nested Debug directory is skipped too
C12_WitnessAllDepth ==
    /\ cur.scanned
    /\ opts.skip_all_dirs = {"DEBUG"}
    /\ {c_gen, c_deep, c_c} \subseteq tree
    /\ c_deep \notin Found
    /\ c_c \in Found

\* how often a path stands in a list
Occurrences(list, p) == Cardinality({i \in 1..Len(list) : list[i] = p})

\* the directory of the file is one the walk reads
InScannedDir(p) ==
    /\ ~(Len(p.dir) > 0 /\ Lower(p.dir[1]) \in LowerNames(opts.skip_top_dirs))
    /\ ~\E i \in 1..Len(p.dir) : Lower(p.dir[i]) \in LowerNames(opts.skip_all_dirs)

IsIgnored(p) ==
    \E x \in opts.ignore :
        <<Lower(x[1]), Lower(x[2])>> = <<Lower(p.base), Lower(p.ext)>>

\* the collection the lower-cased extension selects, 0 for none
CategoryOf(p) ==
    CASE Lower(p.ext) \in {".h", ".hpp"} -> 1
      [] Lower(p.ext) \in {".c", ".cpp"} -> 2
      [] Lower(p.ext) = ".rc" -> 3
      [] OTHER -> 0

\* C13: after scan_directory every file of a scanned directory stands exactly
\* once in the collection its lower-cased extension selects and in no other,
\* unless its lower-cased name is ignored or its extension selects none, and
\* then it stands in no collection; the collections hold nothing else, are
\* pairwise disjoint and hold no path twice.
C13_Classification ==
    cur.scanned =>
        /\ \A p \in tree : InScannedDir(p) =>
              \A k \in 1..3 :
                  Occurrences(files[k], p) =
                      IF ~IsIgnored(p) /\ CategoryOf(p) = k THEN 1 ELSE 0
        /\ Found \subseteq tree
        /\ \A j, k \in 1..3 : j # k => ToSet(files[j]) \cap ToSet(files[k]) = {}
        /\ \A k \in 1..3 : Cardinality(ToSet(files[k])) = Len(files[k])

C13_Witness ==
    /\ cur.scanned
    /\ opts.ignore = {<<"A", ".H">>}
    /\ {h_a, hpp_A, c_b, c_c, r_x, t_readme} \subseteq tree
    /\ InScannedDir(hpp_A) /\ InScannedDir(c_c)
    /\ files[1] = <<hpp_A>>
    /\ {c_b, c_c} \subseteq ToSet(files[2])
    /\ files[3] = <<r_x>>

(***************************************************************************)
(* The filter file as written                                              *)
(***************************************************************************)
FilterBases == <<"Header Files", "Source Files", "Resource Files">>

\* the sub-filters a filter file declares below a standard filter, in the
\* order of the file
Declared(data, base) ==
    LET decls == SelectSeq(data, LAMBDA tok :
                    tok.t = "Filter" /\ Len(tok.f) > 1 /\ tok.f[1] = base)
    IN  [i \in 1..Len(decls) |-> Tail(decls[i].f)]

\* the directory names of a category, each without its first segment when
\* they are lopped off
ExpectedFilters(k) ==
    IF opts.remove_first_dir_name
    THEN {Tail(p.dir) : p \in {q \in ToSet(files[k]) : Len(q.dir) > 1}}
    ELSE {p.dir : p \in {q \in ToSet(files[k]) : Len(q.dir) > 0}}

\* C14: the sub-filters a written filter file declares for a category are the
\* distinct directory names of the category's paths without the root, each
\* without its first segment under --remove-first-dir-name (a name of one
\* segment then gives none), in strictly ascending order.
C14_SubFilters ==
    cur.wf =>
        \A k \in 1..3 :
            LET decl == Declared(fs[filterFile].data, FilterBases[k])
            IN  /\ ToSet(decl) = ExpectedFilters(k)
                /\ \A i, j \in 1..Len(decl) : i < j => SeqLess(decl[i], decl[j])

C14_Witness ==
    /\ cur.wf
    /\ opts.remove_first_dir_name
    /\ ToSet(files[1]) = {h_a, h_a2, h_b, h_c}
    /\ Declared(fs[filterFile].data, "Header Files") = << <<"sub">> >>
    /\ Declared(fs[filterFile].data, "Source Files") = <<>>

C14_WitnessUnstripped ==
    /\ cur.wf
    /\ ~opts.remove_first_dir_name
    /\ ToSet(files[1]) = {h_a, h_a2, h_b, h_c}
    /\ Declared(fs[filterFile].data, "Header Files")
          = << <<"inc">>, <<"inc", "sub">>, <<"src", "sub">> >>

\* the filter a filter file gives a path under an entry type: the set of the
\* <Filter> texts of its entries for the path
FilterOf(data, kind, path) ==
    {data[i].f : i \in {j \in 1..Len(data) :
                            data[j].t = MlKind(kind) /\ data[j].p = path}}

\* C15: with src/a.cpp, inc/a.h and res/x.rc on disk, no filter file, the
\* default options and a well-formed project file, an update run ends with a
\* filter file that declares the sub-filters Header Files\inc and
\* Resource Files\res, declares none below Source Files, and gives each of
\* the three files its filter.
C15_FilterCreationScenario ==
    (/\ tree = {h_a, c_a, r_x}
     /\ projFile # None
     /\ ~isfile(start, filterFile)
     /\ ~opts.scan_only /\ ~opts.no_filter /\ ~opts.remove_first_dir_name
     /\ pc \in {"done", "fatal"}
     /\ err \notin MalformedErrors) =>
        /\ isfile(fs, filterFile)
        /\ LET data == fs[filterFile].data
           IN  /\ Declared(data, "Header Files") = << <<"inc">> >>
               /\ Declared(data, "Resource Files") = << <<"res">> >>
               /\ Declared(data, "Source Files") = <<>>
               /\ FilterOf(data, "ClInclude", h_a) = {<<"Header Files", "inc">>}
               /\ FilterOf(data, "ResourceCompile", r_x) = {<<"Resource Files", "res">>}
               /\ Cardinality(FilterOf(data, "ClCompile", c_a)) = 1

\* what the written file of the scenario holds: the three sub-filters, src
\* among them, and each file under the sub-filter of its directory
C15_WrittenFilterFile ==
    (/\ tree = {h_a, c_a, r_x}
     /\ ~isfile(start, filterFile)
     /\ ~opts.remove_first_dir_name
     /\ cur.wf) =>
        LET data == fs[filterFile].data
        IN  /\ Declared(data, "Header Files") = << <<"inc">> >>
            /\ Declared(data, "Resource Files") = << <<"res">> >>
            /\ Declared(data, "Source Files") = << <<"src">> >>
            /\ FilterOf(data, "ClInclude", h_a) = {<<"Header Files", "inc">>}
            /\ FilterOf(data, "ResourceCompile", r_x) = {<<"Resource Files", "res">>}
            /\ FilterOf(data, "ClCompile", c_a) = {<<"Source Files", "src">>}

\* C16: an update run with --no-filter on a well-formed project file ends
\* with the filter file and its .bak as they were, neither created nor
\* modified, and with the project file rewritten.
C16_NoFilterFlag ==
    (/\ projFile # None
     /\ ~opts.scan_only /\ opts.no_filter
     /\ pc \in {"done", "fatal"}
     /\ err \notin MalformedErrors) =>
        /\ fs[filterFile] = start[filterFile]
        /\ fs[bak(filterFile)] = start[bak(filterFile)]
        /\ cur.wp

\* what holds of every state of a run with --no-filter: write_filter is not
\* reached and the filter file and its .bak stay as they were
C16_FilterFileUntouched ==
    (projFile # None /\ opts.no_filter) =>
        /\ fs[filterFile] = start[filterFile]
        /\ fs[bak(filterFile)] = start[bak(filterFile)]
        /\ ~cur.wf
        /\ pc \notin {"write_filter", "write_filter_open"}

(***************************************************************************)
(* folder_jpg.py                                                           *)
(***************************************************************************)
MaxWalks == 2

\* class AttribFlags(IntFlag): a value is the set of its bits
AttribFlags ==
    {"READONLY", "HIDDEN", "SYSTEM", "ARCHIVE", "NORMAL", "TEMPORARY",
     "OFFLINE", "NOT_CONTENT_INDEXED"}

FOLDER_JPG_FLAGS == {"READONLY", "HIDDEN", "SYSTEM"}

\* the files below the walked directory: os.walk's root, and the file name
JpgFile(root, file) == [root |-> root, file |-> file]

jpg_top == JpgFile(<<>>, "folder.jpg")

jpg_upper == JpgFile(<<"a">>, "Folder.JPG")

jpg_cover == JpgFile(<<"a">>, "cover.jpg")

jpg_deep == JpgFile(<<"a", "b">>, "folder.jpg")

JpgFiles == {jpg_top, jpg_upper, jpg_cover, jpg_deep}

\* what GetFileAttributes finds before the first walk
InitialAttribs ==
    { {"ARCHIVE"}, {"HIDDEN"}, {"READONLY", "HIDDEN", "SYSTEM", "ARCHIVE"} }

WalkFlags == { FOLDER_JPG_FLAGS, {"HIDDEN", "ARCHIVE"} }

\* faulty variant: the attributes are set to the flags alone
set_attribs_Overwrite(a, filename, flags) ==
    LET current_flags == a[filename]
        missing == flags \ current_flags
    IN  IF missing # {}
        THEN [attribs |-> [a EXCEPT ![filename] = flags], called |-> TRUE]
        ELSE [attribs |-> a, called |-> FALSE]

\* set_attribs(filename, flags): the attributes after it, and whether
\* SetFileAttributes was called
set_attribs(a, filename, flags) ==
    LET current_flags == a[filename]
        missing == flags \ current_flags
    IN  IF missing # {}
        THEN [attribs |-> [a EXCEPT ![filename] = flags \cup current_flags],
              called |-> TRUE]
        ELSE [attribs |-> a, called |-> FALSE]

FolderInit ==
    /\ ProjectOff
    /\ VenvOff
    /\ attribs \in [JpgFiles -> InitialAttribs]
    /\ walking = [pc |-> "idle", flags |-> {}, todo |-> {}]
    /\ walked = [before |-> attribs, calls |-> <<>>, count |-> 0, prevFlags |-> {}]

\* walk_and_set(directory, flags) is called
WalkAndSet(flags) ==
    /\ walking.pc \in {"idle", "done"}
    /\ walked.count < MaxWalks
    /\ walking' = [pc |-> "walking", flags |-> flags, todo |-> JpgFiles]
    /\ walked' = [before |-> attribs, calls |-> <<>>, count |-> walked.count + 1,
                  prevFlags |-> walking.flags]
    /\ UNCHANGED attribs

\* os.walk is top-down: a file comes after the files of the directories
\* above its own; the order within a directory is the listing's
NextInWalk(todo) ==
    {p \in todo : \A q \in todo :
        ~(Len(q.root) < Len(p.root) /\ IsPrefix(q.root, p.root))}

\* the body of the loops for one file
VisitFile ==
    /\ walking.pc = "walking"
    /\ \E p \in NextInWalk(walking.todo) :
          /\ walking' = [walking EXCEPT !.todo = @ \ {p}]
          /\ IF Lower(p.file) = "folder.jpg"
             THEN LET r == set_attribs(attribs, p, walking.flags)
                  IN  /\ attribs' = r.attribs
                      /\ walked' = IF r.called
                                   THEN [walked EXCEPT !.calls = Append(@, p)]
                                   ELSE walked
             ELSE UNCHANGED <<attribs, walked>>

\* os.walk is exhausted: walk_and_set returns
WalkReturn ==
    /\ walking.pc = "walking"
    /\ walking.todo = {}
    /\ walking' = [walking EXCEPT !.pc = "done"]
    /\ UNCHANGED <<attribs, walked>>

FolderNext ==
    \/ (\E flags \in WalkFlags : WalkAndSet(flags)) /\ UNCHANGED notFolder
    \/ VisitFile /\ UNCHANGED notFolder
    \/ WalkReturn /\ UNCHANGED notFolder

FolderSpec == FolderInit /\ [][FolderNext]_vars

NamedFolderJpg(p) == p.file \in {"folder.jpg", "Folder.JPG"}

\* C17: when walk_and_set has returned, every file named folder.jpg in any
\* spelling has its attributes of before the walk and the flags, every other
\* file has the attributes it had, SetFileAttributes was called once for each
\* folder.jpg that lacked a flag and for no other file, and a second walk
\* with the same flags has called it for none.
C17_FolderJpgAttributes ==
    walking.pc = "done" =>
        /\ \A p \in JpgFiles :
              attribs[p] = IF NamedFolderJpg(p)
                           THEN walked.before[p] \cup walking.flags
                           ELSE walked.before[p]
        /\ ToSet(walked.calls) =
              {p \in JpgFiles : /\ NamedFolderJpg(p)
                                /\ ~(walking.flags \subseteq walked.before[p])}
        /\ Cardinality(ToSet(walked.calls)) = Len(walked.calls)
        /\ (walked.count > 1 /\ walked.prevFlags = walking.flags) =>
              walked.calls = <<>>

C17_Witness ==
    /\ walking.pc = "done"
    /\ walked.count = 1
    /\ walking.flags = FOLDER_JPG_FLAGS
    /\ walked.before[jpg_upper] = {"ARCHIVE"}
    /\ attribs[jpg_upper] = {"READONLY", "HIDDEN", "SYSTEM", "ARCHIVE"}
    /\ walked.before[jpg_top] = {"READONLY", "HIDDEN", "SYSTEM", "ARCHIVE"}
    /\ attribs[jpg_cover] = {"ARCHIVE"}
    /\ ToSet(walked.calls) = {jpg_upper, jpg_deep}

C17_WitnessSecondWalk ==
    /\ walking.pc = "done"
    /\ walked.count = 2
    /\ walked.prevFlags = walking.flags
    /\ walked.calls = <<>>
    /\ attribs[jpg_deep] # {"ARCHIVE"}

(***************************************************************************)
(* venvconfig: config.py and launcher.py                                   *)
(***************************************************************************)
MaxCalls == 2

\* Python values where None, a str, a Path or a list may stand
PyNone == [py |-> "None", v |-> <<>>]

PyStr(s) == [py |-> "str", v |-> <<s>>]

PyPath(s) == [py |-> "Path", v |-> <<s>>]

PyList(l) == [py |-> "list", v |-> l]

\* bool(x) of such a value
Truthy(x) == x.py = "Path" \/ (x.py \in {"str", "list"} /\ x.v # <<>> /\ x.v # <<"">>)

\* Config(path, name, requirements); requirements is a dict, kept as the
\* sequence of its (package, version) items
Config(path, name, requirements) ==
    [path |-> path, name |-> name, requirements |-> requirements]

RequirementSets ==
    { <<>>,
      << <<"A", "1.0">> >>,
      << <<"A", "1.10">>, <<"b", "1.0">> >> }

Configs ==
    { Config(p, n, r) : p \in {PyNone, PyPath("venv")},
                        n \in {PyNone, PyStr("n")},
                        r \in RequirementSets }

\* what "pip freeze" reports for the running interpreter: name -> version
InstalledSets == { <<>>, [k \in {"a"} |-> "1.9"] }

\* sys.prefix is the configured venv; the venv's python exists
Environments ==
    [active : BOOLEAN, exe : BOOLEAN, installed : InstalledSets]

ArgvLists ==
    { <<"s.py">>, <<"s.py", "-v">>, <<"s.py", "--repair-venv", "-v">> }

\* a configuration file: its [venv] and [pip] sections; lacks names the
\* section or key the file does not have
ConfigFile(path, name, pip) ==
    [exists |-> TRUE, path |-> path, name |-> name, pip |-> pip, lacks |-> ""]

NoConfigFile ==
    [exists |-> FALSE, path |-> "", name |-> PyNone, pip |-> <<>>, lacks |-> "venv"]

\* a file without its [venv] section, without the path key, without [pip]
Lacking(file, what) ==
    [file EXCEPT !.lacks = what,
                 !.path = IF what \in {"venv", "path"} THEN "" ELSE @,
                 !.name = IF what = "venv" THEN PyNone ELSE @,
                 !.pip = IF what = "pip" THEN <<>> ELSE @]

ConfigFiles ==
    LET full == ConfigFile("old", PyStr("n"), << <<"a", "1.0">> >>)
    IN  { NoConfigFile, full, Lacking(full, "venv"), Lacking(full, "path"),
          Lacking(full, "pip") }

\* the directory read_target_venv is pointed at: pyvenv.cfg is a file, the
\* activate script is a file, the prompt the script sets (None: no such line)
Target(pyvenv, activate, prompt) ==
    [pyvenv |-> pyvenv, activate |-> activate, prompt |-> prompt]

NoTarget == Target(FALSE, FALSE, PyNone)

Targets ==
    { NoTarget,
      Target(TRUE, TRUE, PyStr("t")),
      Target(TRUE, TRUE, PyNone),
      Target(TRUE, FALSE, PyNone),
      Target(FALSE, TRUE, PyStr("t")) }

\* Config._version: the version as a tuple of numbers
_version(value) ==
    CASE value = "1.0" -> <<1, 0>>
      [] value = "1.9" -> <<1, 9>>
      [] value = "1.10" -> <<1, 10>>

\* a > b for tuples of numbers
RECURSIVE TupleGreater(_, _)
TupleGreater(a, b) ==
    IF Len(a) = 0 THEN FALSE
    ELSE IF Len(b) = 0 THEN TRUE
    ELSE IF a[1] = b[1] THEN TupleGreater(Tail(a), Tail(b))
    ELSE a[1] > b[1]

\* Config.current_missing_requirements, have = self._read_current_pip()
current_missing_requirements(c, have) ==
    SelectSeq(c.requirements, LAMBDA item :
        \/ Lower(item[1]) \notin DOMAIN have
        \/ TupleGreater(_version(item[2]), _version(have[Lower(item[1])])))

\* Config.save_config(path): the exception it ends with.  Line 99 reads
\* self.venv_name, an attribute no Config has, before the file is opened.
save_config(c) ==
    IF ~Truthy(c.path) THEN "ConfigError" ELSE "AttributeError"

\* faulty variant: path and name are assigned as soon as they are read
read_config_CommitEarly(c, file) ==
    IF ~file.exists \/ file.lacks \in {"venv", "path"}
    THEN [raised |-> "KeyError", config |-> c]
    ELSE IF file.lacks = "pip"
    THEN [raised |-> "KeyError",
          config |-> Config(PyPath(file.path), file.name, c.requirements)]
    ELSE [raised |-> "",
          config |-> Config(PyPath(file.path), file.name, file.pip)]

\* Config.read_config(path) of the Config c: the exception, and the Config
\* after.  config.read of a missing file reads nothing; config['venv'],
\* ['path'] and config['pip'] raise KeyError before "# Commit changes"
read_config(c, file) ==
    IF ~file.exists \/ file.lacks \in {"venv", "path", "pip"}
    THEN [raised |-> "KeyError", config |-> c]
    ELSE [raised |-> "",
          config |-> Config(PyPath(file.path), file.name, file.pip)]

\* Config._read_venv_name(path): open(activate) fails without the script
_read_venv_name(target) ==
    IF ~target.activate THEN [raised |-> "FileNotFoundError", name |-> PyNone]
    ELSE [raised |-> "", name |-> target.prompt]

\* Config._read_target_venv(path)
_read_target_venv(path, target) ==
    IF ~target.pyvenv
    THEN [raised |-> "ConfigError", path |-> PyNone, name |-> PyNone]
    ELSE [raised |-> _read_venv_name(target).raised,
          path |-> PyPath(path), name |-> _read_venv_name(target).name]

\* Config.read_target_venv(path):
\* self.path, self.name = self._read_target_venv(path)
read_target_venv(c, path, target) ==
    LET r == _read_target_venv(path, target)
    IN  IF r.raised # "" THEN [raised |-> r.raised, config |-> c]
        ELSE [raised |-> "", config |-> Config(r.path, r.name, c.requirements)]

\* one entry of what the process did: venv.main, subprocess.Popen, pip.main
\* or sys.exit, with the command line of it
Did(op, cmd) == [op |-> op, cmd |-> cmd]

\* Launcher.create
create(c, log) ==
    Append(log, Did("create",
        c.path.v \o <<"--clear">>
          \o (IF Truthy(c.name) THEN <<"--prompt">> \o c.name.v ELSE <<>>)))

\* Launcher._launch: cmd = [str(exe), str(script_path)] + args
_launch(log, script_path, args) ==
    Append(log, Did("Popen", <<"venv/python", script_path>> \o args))

\* list.remove(x): the first x is taken out
RECURSIVE ListRemove(_, _)
ListRemove(l, x) ==
    IF Len(l) = 0 THEN <<>>
    ELSE IF l[1] = x THEN Tail(l)
    ELSE <<l[1]>> \o ListRemove(Tail(l), x)

\* Launcher._launch_script(script_path, args): args None is sys.argv itself,
\* which loses its first element (pop(0) of an empty list is an IndexError);
\* what env, sys.argv and the log are after
_launch_script(c, e, av, log, script_path, args) ==
    LET given == args # PyNone
        a0 == IF given THEN args.v ELSE IF av = <<>> THEN <<>> ELSE Tail(av)
        repair == \E i \in 1..Len(a0) : a0[i] = "--repair-venv"
        a1 == IF repair THEN ListRemove(a0, "--repair-venv") ELSE a0
        av1 == IF given THEN av ELSE a1
    IN  IF ~given /\ av = <<>>
        THEN [raised |-> "IndexError", env |-> e, argv |-> av, log |-> log]
        ELSE IF repair
        THEN [raised |-> "", env |-> e, argv |-> av1, log |-> log]
        ELSE IF e.exe
        THEN [raised |-> "", env |-> e, argv |-> av1,
              log |-> _launch(log, script_path, a1)]
        ELSE [raised |-> "", env |-> [e EXCEPT !.exe = TRUE], argv |-> av1,
              log |-> _launch(create(c, log), script_path, a1)]

\* pip.main(['install', 'item==version', ..]) for each missing item
RECURSIVE pip_install(_, _, _)
pip_install(e, log, missing) ==
    IF Len(missing) = 0 THEN [env |-> e, log |-> log]
    ELSE LET item == missing[1]
             have == [k \in DOMAIN e.installed \cup {Lower(item[1])} |->
                         IF k = Lower(item[1]) THEN item[2] ELSE e.installed[k]]
         IN  pip_install([e EXCEPT !.installed = have],
                         Append(log, Did("pip", <<"install", item[1], item[2]>>)),
                         Tail(missing))

\* Launcher.install_requirements
install_requirements(c, e, log) ==
    IF e.active
    THEN pip_install(e, log, current_missing_requirements(c, e.installed))
    ELSE [env |-> e, log |-> log]

NoCall == [fn |-> "", script_path |-> "", args |-> PyNone, target |-> NoTarget]

VenvInit ==
    /\ ProjectOff
    /\ FolderOff
    /\ config \in Configs
    /\ cfgfile \in ConfigFiles
    /\ env \in Environments
    /\ argv \in ArgvLists
    /\ proc = [pc |-> "idle", calls |-> 0, log |-> <<>>, raised |-> "",
               call |-> NoCall, env |-> env, argv |-> argv, from |-> 0,
               config |-> config]

\* the process is in a state to make its next call
CanCall == proc.pc \in {"idle", "returned"} /\ proc.calls < MaxCalls

\* the bookkeeping at the start of a call
Called(fn, script_path, args) ==
    [proc EXCEPT !.calls = @ + 1, !.raised = "",
                 !.call = [fn |-> fn, script_path |-> script_path, args |-> args,
                           target |-> NoTarget],
                 !.env = env, !.argv = argv, !.from = Len(proc.log),
                 !.config = config]

\* Launcher.active() of a Config without a path: None has no resolve()
Raise(p, exception) == [p EXCEPT !.pc = "raised", !.raised = exception]

\* Launcher.ensure_active()
Launcher_ensure_active ==
    /\ CanCall
    /\ LET p == Called("Launcher.ensure_active", "", PyNone)
       IN  IF config.path = PyNone
           THEN /\ proc' = Raise(p, "AttributeError")
                /\ UNCHANGED <<env, argv>>
           ELSE IF ~env.active /\ argv = <<>>
           THEN /\ proc' = Raise(p, "IndexError")
                /\ UNCHANGED <<env, argv>>
           ELSE IF ~env.active
           THEN LET r == _launch_script(config, env, argv, proc.log, argv[1], PyNone)
                IN  /\ proc' = [p EXCEPT !.pc = "exited",
                                         !.log = Append(r.log, Did("exit", <<"0">>))]
                    /\ env' = r.env
                    /\ argv' = r.argv
           ELSE LET r == install_requirements(config, env, proc.log)
                IN  /\ proc' = [p EXCEPT !.pc = "returned", !.log = r.log]
                    /\ env' = r.env
                    /\ UNCHANGED argv
    /\ UNCHANGED <<config, cfgfile>>

\* ensure_active(config), the function of the module
ensure_active ==
    /\ CanCall
    /\ LET p == Called("ensure_active", "", PyNone)
       IN  IF config.path = PyNone
           THEN /\ proc' = Raise(p, "AttributeError")
                /\ UNCHANGED <<env, argv>>
           ELSE IF ~env.active /\ argv = <<>>
           THEN /\ proc' = Raise(p, "IndexError")
                /\ UNCHANGED <<env, argv>>
           ELSE IF ~env.active
           THEN LET r == _launch_script(config, env, argv, proc.log, argv[1], PyNone)
                IN  /\ proc' = [p EXCEPT !.pc = "exited",
                                         !.log = Append(r.log, Did("exit", <<"0">>))]
                    /\ env' = r.env
                    /\ argv' = r.argv
           ELSE IF current_missing_requirements(config, env.installed) # <<>>
           THEN LET r == install_requirements(config, env, proc.log)
                IN  /\ proc' = [p EXCEPT !.pc = "returned", !.log = r.log]
                    /\ env' = r.env
                    /\ UNCHANGED argv
           ELSE /\ proc' = [p EXCEPT !.pc = "returned"]
                /\ UNCHANGED <<env, argv>>
    /\ UNCHANGED <<config, cfgfile>>

\* Launcher.install_requirements()
Launcher_install_requirements ==
    /\ CanCall
    /\ LET p == Called("Launcher.install_requirements", "", PyNone)
       IN  IF config.path = PyNone
           THEN /\ proc' = Raise(p, "AttributeError")
                /\ UNCHANGED env
           ELSE LET r == install_requirements(config, env, proc.log)
                IN  /\ proc' = [p EXCEPT !.pc = "returned", !.log = r.log]
                    /\ env' = r.env
    /\ UNCHANGED <<config, cfgfile, argv>>

\* Launcher.launch_script(script_path, args)
Launcher_launch_script(script_path, args) ==
    /\ CanCall
    /\ LET p == Called("Launcher.launch_script", script_path, args)
           r == _launch_script(config, env, argv, proc.log, script_path, args)
       IN  /\ proc' = IF r.raised # "" THEN Raise(p, r.raised)
                       ELSE [p EXCEPT !.pc = "returned", !.log = r.log]
           /\ env' = r.env
           /\ argv' = r.argv
    /\ UNCHANGED <<config, cfgfile>>

LaunchArgs ==
    { PyNone, PyList(<<>>), PyList(<<"-v">>), PyList(<<"--repair-venv", "-v">>) }

\* Config.save_config(path)
Config_save_config ==
    /\ CanCall
    /\ proc' = Raise(Called("Config.save_config", "", PyNone), save_config(config))
    /\ UNCHANGED <<config, cfgfile, env, argv>>

\* Config.read_config(path) of the Config in use
Config_read_config ==
    /\ CanCall
    /\ LET p == Called("Config.read_config", "", PyNone)
           r == read_config(config, cfgfile)
       IN  /\ proc' = IF r.raised # "" THEN Raise(p, r.raised)
                       ELSE [p EXCEPT !.pc = "returned"]
           /\ config' = r.config
    /\ UNCHANGED <<cfgfile, env, argv>>

\* Config.read_target_venv(path) of the Config in use
Config_read_target_venv(path, target) ==
    /\ CanCall
    /\ LET p == [Called("Config.read_target_venv", "", PyNone)
                    EXCEPT !.call.script_path = path, !.call.target = target]
           r == read_target_venv(config, path, target)
       IN  /\ proc' = IF r.raised # "" THEN Raise(p, r.raised)
                       ELSE [p EXCEPT !.pc = "returned"]
           /\ config' = r.config
    /\ UNCHANGED <<cfgfile, env, argv>>

\* an exception was caught by the caller, which goes on
Caught ==
    /\ proc.pc = "raised"
    /\ proc' = [proc EXCEPT !.pc = "returned"]
    /\ UNCHANGED <<config, cfgfile, env, argv>>

VenvNext ==
    \/ Launcher_ensure_active /\ UNCHANGED notVenv
    \/ ensure_active /\ UNCHANGED notVenv
    \/ Launcher_install_requirements /\ UNCHANGED notVenv
    \/ (\E args \in LaunchArgs : Launcher_launch_script("tool.py", args))
          /\ UNCHANGED notVenv
    \/ Config_save_config /\ UNCHANGED notVenv
    \/ Config_read_config /\ UNCHANGED notVenv
    \/ (\E target \in Targets : Config_read_target_venv("tgt", target))
          /\ UNCHANGED notVenv
    \/ Caught /\ UNCHANGED notVenv

VenvSpec == VenvInit /\ [][VenvNext]_vars

\* what the current call has done: the entries it added to the log
NewLog == SubSeq(proc.log, proc.from + 1, Len(proc.log))

Ops(l) == [i \in 1..Len(l) |-> l[i].op]

HasRepairFlag(l) == \E i \in 1..Len(l) : l[i] = "--repair-venv"

WithoutRepairFlag(l) == SelectSeq(l, LAMBDA x : x # "--repair-venv")

EnsureActiveEnded ==
    /\ proc.call.fn \in {"Launcher.ensure_active", "ensure_active"}
    /\ proc.pc \in {"exited", "returned"}
    /\ proc.raised = ""

\* C18: ensure_active of a Launcher whose venv is not the active one ends
\* with the process exited, having created the venv first if its interpreter
\* was missing, then started sys.argv[0] under the venv's interpreter, and
\* installed nothing; with the venv active it starts and creates nothing, and
\* every requirement that the environment lacked is installed afterwards.
C18_EnsureActiveOrdering ==
    EnsureActiveEnded =>
        IF ~proc.env.active
        THEN /\ proc.pc = "exited"
             /\ Ops(NewLog) = (IF proc.env.exe THEN <<>> ELSE <<"create">>)
                                 \o <<"Popen", "exit">>
             /\ \A i \in 1..Len(NewLog) : NewLog[i].op = "Popen" =>
                   SubSeq(NewLog[i].cmd, 1, 2) = <<"venv/python", proc.argv[1]>>
        ELSE /\ proc.pc = "returned"
             /\ \A i \in 1..Len(NewLog) : NewLog[i].op = "pip"
             /\ \A i \in 1..Len(config.requirements) :
                   LET item == config.requirements[i]
                   IN  Lower(item[1]) \notin DOMAIN proc.env.installed =>
                          /\ Lower(item[1]) \in DOMAIN env.installed
                          /\ env.installed[Lower(item[1])] = item[2]

\* the same holds of every call in which --repair-venv is not on the command
\* line of the process
C18_WithoutRepairVenv ==
    (EnsureActiveEnded /\ ~HasRepairFlag(proc.argv)) => C18_EnsureActiveOrdering

\* C19: a call of launch_script that returned has started the script in one
\* new process under the venv's interpreter, after creating the venv when
\* the interpreter was missing or --repair-venv was among the arguments, and
\* has passed the arguments on without --repair-venv.
C19_LaunchScriptLaunches ==
    (/\ proc.call.fn = "Launcher.launch_script"
     /\ proc.pc = "returned"
     /\ proc.raised = "") =>
        LET args == IF proc.call.args = PyNone THEN Tail(proc.argv)
                    ELSE proc.call.args.v
        IN  /\ Ops(NewLog) =
                  (IF ~proc.env.exe \/ HasRepairFlag(args)
                   THEN <<"create">> ELSE <<>>) \o <<"Popen">>
            /\ NewLog[Len(NewLog)].cmd =
                  <<"venv/python", proc.call.script_path>>
                      \o WithoutRepairFlag(args)

\* without --repair-venv among the arguments every call launches
C19_WithoutRepairVenv ==
    (/\ proc.call.fn = "Launcher.launch_script"
     /\ proc.pc = "returned"
     /\ proc.raised = ""
     /\ ~HasRepairFlag(IF proc.call.args = PyNone THEN Tail(proc.argv)
                       ELSE proc.call.args.v)) => C19_LaunchScriptLaunches

\* C20: save_config of a Config with a path raises nothing and leaves a
\* file from which read_config on a fresh Config gets the same path, name
\* and requirements; save_config of a Config without a path raises
\* ConfigError.
C20_SaveReadRoundTrip ==
    (proc.call.fn = "Config.save_config" /\ proc.pc \in {"raised", "returned"}) =>
        IF config.path # PyNone
        THEN /\ proc.raised = ""
             /\ read_config(Config(PyNone, PyNone, <<>>), cfgfile).raised = ""
             /\ read_config(Config(PyNone, PyNone, <<>>), cfgfile).config = config
        ELSE proc.raised = "ConfigError"

\* what holds: save_config never gets as far as the file
C20_SaveNeverWrites ==
    [][proc'.call.fn = "Config.save_config" =>
          /\ cfgfile' = cfgfile
          /\ proc'.raised \in {"ConfigError", "AttributeError"}]_vars

\* the groups write_project works on: the text between <ItemGroup> markers
wp_groups(data) ==
    LET split == reItemGroupBegin_split(data)
    IN  [i \in 1..Len(split) |-> StripNL(split[i])]

\* group has an entry of type k, in single-line or multi-line form
MatchesType(k, group) ==
    reSingle_search(Kinds[k], group) \/ reMl_search(Kinds[k], group)

\* the entry types of which groups[i] is the first matching group
FirstFor(groups, i) ==
    {k \in 1..3 : /\ MatchesType(k, groups[i])
                  /\ \A j \in 1..(i - 1) : ~MatchesType(k, groups[j])}

OneGroupPerType(groups, out) ==
    /\ Len(out) = Len(groups)
    /\ \A i \in 1..Len(groups) :
          IF FirstFor(groups, i) = {} THEN out[i] = groups[i]
          ELSE \E k \in FirstFor(groups, i) :
                  out[i] = rebuild_group(groups[i], files[k], Kinds[k])

\* C21: of the groups write_project is about to write, the first group that
\* matches an entry type is that group rebuilt with one self-closing entry
\* per file on disk (its indentation, its closing tag and what follows it
\* kept), for one type only, and every other group, a later group with
\* entries of the same type in single-line or multi-line form included, is
\* what it was in the file.
C21_OneRebuiltGroupPerType ==
    (pc = "write_project_open")
        => OneGroupPerType(wp_groups(Before), pending.groups)

\* a later group has a multi-line entry of a type an earlier group matches
LaterMultiLine(groups) ==
    \E k \in 1..3 : \E i \in 1..Len(groups) :
        /\ reMl_search(Kinds[k], groups[i])
        /\ \E j \in 1..(i - 1) : MatchesType(k, groups[j])

\* without such a group one group per entry type is rebuilt
C21_SingleLineLaterGroups ==
    (pc = "write_project_open" /\ ~LaterMultiLine(wp_groups(Before)))
        => OneGroupPerType(wp_groups(Before), pending.groups)

\* a project in which a later group with a single-line entry stays as it was
C21_LaterGroupKept ==
    /\ pc = "write_project_open"
    /\ \E i \in 1..Len(wp_groups(Before)) :
          /\ MatchesType(2, wp_groups(Before)[i])
          /\ FirstFor(wp_groups(Before), i) = {}
          /\ pending.groups[i] = wp_groups(Before)[i]

C22_WitnessUnstripped ==
    /\ cur.wf
    /\ ~opts.remove_first_dir_name
    /\ FilterOf(fs[filterFile].data, "ClInclude", h_c)
          = {<<"Header Files", "inc", "sub">>}
    /\ FilterOf(fs[filterFile].data, "ClCompile", c_a) = {<<"Source Files", "src">>}

ReadEnded ==
    /\ proc.call.fn \in {"Config.read_config", "Config.read_target_venv"}
    /\ proc.pc \in {"raised", "returned"}

\* C23: read_config fails exactly when the file lacks the venv section, the
\* path key or the pip section, read_target_venv fails when there is no
\* pyvenv.cfg at the target (ConfigError) or no activate script, and a failed
\* call leaves path, name and requirements of the Config as they were before
\* the call; a call that succeeds has set path, name and requirements
\* (read_config) or path and name (read_target_venv) from what it read.
C23_ReadsCommitAtomically ==
    ReadEnded =>
        IF proc.call.fn = "Config.read_config"
        THEN IF ~cfgfile.exists \/ cfgfile.lacks # ""
             THEN proc.raised = "KeyError" /\ config = proc.config
             ELSE /\ proc.raised = ""
                  /\ config.path = PyPath(cfgfile.path)
                  /\ config.name = cfgfile.name
                  /\ config.requirements = cfgfile.pip
        ELSE IF ~proc.call.target.pyvenv
             THEN proc.raised = "ConfigError" /\ config = proc.config
             ELSE IF ~proc.call.target.activate
             THEN proc.raised # "" /\ config = proc.config
             ELSE /\ proc.raised = ""
                  /\ config.path = PyPath(proc.call.script_path)
                  /\ config.name = proc.call.target.prompt
                  /\ config.requirements = proc.config.requirements

\* the file has a venv section with path and name but no pip section, and
\* the Config still has the path and name it had
C23_Witness ==
    /\ ReadEnded
    /\ proc.call.fn = "Config.read_config"
    /\ cfgfile.exists /\ cfgfile.lacks = "pip"
    /\ proc.raised = "KeyError"
    /\ config.path = PyPath("venv") /\ config.name = PyNone
    /\ config.path # PyPath(cfgfile.path) /\ config.name # cfgfile.name

C23_WitnessTarget ==
    /\ ReadEnded
    /\ proc.call.fn = "Config.read_target_venv"
    /\ ~proc.call.target.pyvenv
    /\ proc.raised = "ConfigError"
    /\ config = Config(PyPath("old"), PyStr("n"), << <<"a", "1.0">> >>)

C23_WitnessSuccess ==
    /\ ReadEnded
    /\ proc.call.fn = "Config.read_target_venv"
    /\ proc.raised = ""
    /\ config = Config(PyPath("tgt"), PyStr("t"), << <<"A", "1.10">>, <<"b", "1.0">> >>)

====
